---- MODULE Spec2Model ----
(***************************************************************************)
(* Model of ldsc/parse.py: the input checks, the .chisq / .betaprod /      *)
(* .l2.ldscore readers and the ID containers with their loj query.         *)
(*                                                                         *)
(* Library semantics are those of the pandas / numpy releases the module   *)
(* runs on (Series.duplicated takes its first positional argument as       *)
(* take_last; Series.min / Series.max skip NaN and give NaN on an empty    *)
(* column; a comparison with NaN is False).                                *)
(***************************************************************************)
EXTENDS Integers, Sequences, FiniteSets

VARIABLES pc, op, arg, fh, res, self, externalDf, ret

vars == <<pc, op, arg, fh, res, self, externalDf, ret>>

(***************************************************************************)
(* Bounds of the model.                                                    *)
(***************************************************************************)
MaxLen == 2

MaxRows == 2

MaxEdits == 2

MaxExt == 2

(***************************************************************************)
(* Cells.  Every table cell is a record of one shape: a string, an int, a  *)
(* float n/d (d > 0, in lowest terms), +/-inf, NaN, or the signed square   *)
(* root sign(n) * sqrt(|n|/d) that np.sqrt(...) * DIR produces.            *)
(***************************************************************************)
RECURSIVE GCD(_, _)
GCD(a, b) == IF b = 0 THEN a ELSE GCD(b, a % b)

Abs(n) == IF n < 0 THEN -n ELSE n

Str(s) == [k |-> "str", n |-> 0, d |-> 1, s |-> s]

IntCell(i) == [k |-> "int", n |-> i, d |-> 1, s |-> ""]

Num(n, d) ==
    LET g == GCD(Abs(n), d)
    IN  [k |-> "num", n |-> n \div g, d |-> d \div g, s |-> ""]

NaN == [k |-> "nan", n |-> 0, d |-> 1, s |-> ""]

PosInf == [k |-> "inf", n |-> 1, d |-> 1, s |-> ""]

NegInf == [k |-> "inf", n |-> -1, d |-> 1, s |-> ""]

Root(n, d) ==
    LET g == GCD(Abs(n), d)
    IN  IF n = 0 THEN Num(0, 1)
        ELSE [k |-> "root", n |-> n \div g, d |-> d \div g, s |-> ""]

IsNaN(x) == x.k = "nan"

\* x < y on ints and floats; False when either side is NaN
Less(x, y) ==
    /\ ~IsNaN(x)
    /\ ~IsNaN(y)
    /\ IF x.k = "inf" /\ y.k = "inf" THEN x.n < y.n
       ELSE IF x.k = "inf" THEN x.n < 0
       ELSE IF y.k = "inf" THEN y.n > 0
       ELSE x.n * y.d < y.n * x.d

\* x == y on ints and floats; False when either side is NaN
Equal(x, y) == ~IsNaN(x) /\ ~IsNaN(y) /\ ~Less(x, y) /\ ~Less(y, x)

LessEq(x, y) == Less(x, y) \/ Equal(x, y)

\* Series.max(): the largest entry that is not NaN, NaN when there is none
SeriesMax(col) ==
    LET vals == {col[i] : i \in {j \in DOMAIN col : ~IsNaN(col[j])}}
    IN  IF vals = {} THEN NaN
        ELSE CHOOSE m \in vals : \A v \in vals : ~Less(m, v)

\* Series.min(): the smallest entry that is not NaN, NaN when there is none
SeriesMin(col) ==
    LET vals == {col[i] : i \in {j \in DOMAIN col : ~IsNaN(col[j])}}
    IN  IF vals = {} THEN NaN
        ELSE CHOOSE m \in vals : \A v \in vals : ~Less(v, m)

\* np.any over a boolean column
np_any(bools) == \E i \in DOMAIN bools : bools[i]

(***************************************************************************)
(* Exceptions: what a call raised, NoExc when it returned.                 *)
(***************************************************************************)
NoExc == [exc |-> "", msg |-> ""]

ValueError(m) == [exc |-> "ValueError", msg |-> m]

KeyError(m) == [exc |-> "KeyError", msg |-> m]

TypeError(m) == [exc |-> "TypeError", msg |-> m]

(***************************************************************************)
(* Input checking functions.                                               *)
(***************************************************************************)
check_dir(dir) ==
    LET c1 == [i \in DOMAIN dir |-> ~Equal(dir[i], IntCell(1))]
        c2 == [i \in DOMAIN dir |-> ~Equal(dir[i], IntCell(-1))]
    IN  IF np_any([i \in DOMAIN dir |-> c1[i] /\ c2[i]])
        THEN ValueError("DIR entry not equal to +/- 1.")
        ELSE NoExc

\* Series.duplicated('SNP'): the positional argument is take_last, and it is
\* truthy, so every occurrence but the last of a value is marked
Duplicated(col) ==
    [i \in DOMAIN col |-> \E j \in DOMAIN col : j > i /\ col[j] = col[i]]

\* check_rsid without the test for '.'
check_rsid_dups_only(rsids) ==
    IF np_any(Duplicated(rsids))
    THEN ValueError("Duplicated SNP identifiers.")
    ELSE NoExc

check_rsid(rsids) ==
    IF np_any([i \in DOMAIN rsids |-> rsids[i] = Str(".")])
    THEN ValueError("Some SNP identifiers are set to . (a dot).")
    ELSE IF np_any(Duplicated(rsids))
    THEN ValueError("Duplicated SNP identifiers.")
    ELSE NoExc

check_pvalue(P) ==
    IF np_any([i \in DOMAIN P |-> IsNaN(P[i])])
    THEN ValueError("Missing P-values")
    ELSE IF Less(Num(1, 1), SeriesMax(P))
    THEN ValueError("P-values cannot be > 1.")
    ELSE IF LessEq(SeriesMin(P), Num(0, 1))
    THEN ValueError("P values cannot be <= 0")
    ELSE NoExc

check_chisq(c) ==
    IF np_any([i \in DOMAIN c |-> IsNaN(c[i])])
    THEN ValueError("Missing chi-square statistics.")
    ELSE IF Equal(SeriesMax(c), PosInf)
    THEN ValueError("Infinite chi-square statistics.")
    ELSE IF Less(SeriesMin(c), Num(0, 1))
    THEN ValueError("Negative chi-square statistics")
    ELSE NoExc

check_maf(maf) ==
    IF np_any([i \in DOMAIN maf |-> IsNaN(maf[i])])
    THEN ValueError("Missing values in MAF.")
    ELSE IF LessEq(Num(1, 1), SeriesMax(maf))
    THEN ValueError("MAF >= 1.")
    ELSE IF LessEq(SeriesMin(maf), Num(0, 1))
    THEN ValueError("MAF <= 0.")
    ELSE NoExc

\* check_N with zero rejected as well
check_N_positive(N) ==
    IF LessEq(SeriesMin(N), IntCell(0))
    THEN ValueError("Negative N.")
    ELSE NoExc

check_N(N) ==
    IF Less(SeriesMin(N), IntCell(0))
    THEN ValueError("Negative N.")
    ELSE NoExc

(***************************************************************************)
(* Float arithmetic of the transforms.                                     *)
(***************************************************************************)
\* Series.astype(float)
astype_float(col) ==
    [i \in DOMAIN col |->
        IF col[i].k = "int" THEN Num(col[i].n, 1) ELSE col[i]]

\* 1 - m
OneMinus(m) ==
    IF m.k = "nan" THEN NaN
    ELSE IF m.k = "inf" THEN (IF m.n > 0 THEN NegInf ELSE PosInf)
    ELSE Num(m.d - m.n, m.d)

\* np.fmin(a, b) of two floats: the smaller, ignoring a NaN
fmin(a, b) ==
    IF IsNaN(a) THEN b
    ELSE IF IsNaN(b) THEN a
    ELSE IF Less(b, a) THEN b ELSE a

\* scipy.special.chdtri(1, p): the chi-square (1 df) value whose upper tail
\* probability is p, to four decimals, on the probabilities the model reads
chdtri1(p) ==
    CASE p.k = "nan" -> NaN
      [] p.k = "inf" -> NaN
      [] p.k = "num" /\ (p.n < 0 \/ p.n > p.d) -> NaN
      [] p.k = "num" /\ p.n = 0 -> PosInf
      [] p = Num(1, 4) -> Num(13233, 10000)
      [] p = Num(1, 2) -> Num(4549, 10000)
      [] p = Num(3, 4) -> Num(1015, 10000)
      [] p = Num(1, 1) -> Num(0, 1)

\* c / n on floats: a zero divisor gives inf (nan for 0/0), as pandas does
Div(c, n) ==
    IF IsNaN(c) \/ IsNaN(n) THEN NaN
    ELSE IF c.k = "inf"
         THEN (IF n.k = "inf" THEN NaN
               ELSE IF (n.n < 0) = (c.n < 0) THEN PosInf ELSE NegInf)
    ELSE IF n.k = "inf" THEN Num(0, 1)
    ELSE IF n.n = 0
         THEN (IF c.n = 0 THEN NaN ELSE IF c.n > 0 THEN PosInf ELSE NegInf)
    ELSE IF n.n > 0 THEN Num(c.n * n.d, c.d * n.n)
    ELSE Num(-(c.n * n.d), c.d * (-n.n))

\* np.sqrt(q)
Sqrt(q) ==
    IF IsNaN(q) THEN NaN
    ELSE IF q.k = "inf" THEN (IF q.n > 0 THEN PosInf ELSE NaN)
    ELSE IF q.n < 0 THEN NaN
    ELSE Root(q.n, q.d)

\* r * dir for an int dir
MulDir(r, dir) ==
    IF IsNaN(r) THEN NaN
    ELSE IF r.k = "inf"
         THEN (IF dir.n = 0 THEN NaN
               ELSE IF r.n * dir.n > 0 THEN PosInf ELSE NegInf)
    ELSE IF r.k = "root" THEN Root(r.n * dir.n, r.d)
    ELSE Num(r.n * dir.n, r.d)

(***************************************************************************)
(* Data frames: a sequence of columns, each a name and its values.  Names  *)
(* may repeat, as they may in a pandas frame.                              *)
(***************************************************************************)
Names(x) == [i \in DOMAIN x |-> x[i].name]

HasCol(x, name) == \E i \in DOMAIN x : x[i].name = name

NumRows(x) == IF x = <<>> THEN 0 ELSE Len(x[1].vals)

\* x[name]
Col(x, name) ==
    x[CHOOSE i \in DOMAIN x :
        x[i].name = name /\ \A j \in DOMAIN x : x[j].name = name => i <= j].vals

\* x[name] = vals
SetCol(x, name, vals) ==
    IF HasCol(x, name)
    THEN [i \in DOMAIN x |->
            IF x[i].name = name THEN [name |-> name, vals |-> vals] ELSE x[i]]
    ELSE Append(x, [name |-> name, vals |-> vals])

\* x.rename(columns={old: new}, inplace=True)
Rename(x, old, new) ==
    [i \in DOMAIN x |->
        IF x[i].name = old THEN [x[i] EXCEPT !.name = new] ELSE x[i]]

\* del x[name]
DelCol(x, name) == SelectSeq(x, LAMBDA c : c.name # name)

\* pd.read_csv(fh, header=0, usecols=usecols): the file's columns that are in
\* usecols, in the file's order
read_csv(file, usecols) == SelectSeq(file, LAMBDA c : c.name \in usecols)

(***************************************************************************)
(* A run of a parser: the frame so far, what was raised, and the checks    *)
(* and transforms executed, in order.  A step of a run that has raised     *)
(* does nothing: the exception has left the function.                      *)
(***************************************************************************)
Start(x) == [x |-> x, raised |-> NoExc, log |-> <<>>]

Step(st, label, exc, newx) ==
    IF st.raised # NoExc THEN st
    ELSE IF exc # NoExc
    THEN [x |-> st.x, raised |-> exc, log |-> Append(st.log, label)]
    ELSE [x |-> newx, raised |-> NoExc, log |-> Append(st.log, label)]

\* check(x[name]): KeyError when the frame has no such column
CheckCol(x, name, exc) == IF HasCol(x, name) THEN exc ELSE KeyError(name)

\* the value a parser call leaves: the table it returned, or what it raised
Result(st) ==
    [raised |-> st.raised,
     table |-> IF st.raised = NoExc THEN st.x ELSE <<>>,
     log |-> st.log]

(***************************************************************************)
(* Parsers.  Each is its statements in order, one Step each.               *)
(***************************************************************************)
\* F applied to the run so far
Then(st, F(_)) == CHOOSE out \in {F(s) : s \in {st}} : TRUE

\* column by column application of f
Map(col, f(_)) == [r \in DOMAIN col |-> f(col[r])]

chisq_check_N(st) ==
    Step(st, <<"check_N", 0>>,
         CheckCol(st.x, "N", check_N(Col(st.x, "N"))), st.x)

chisq_astype_N(st) ==
    Step(st, <<"astype_N", 0>>, NoExc,
         SetCol(st.x, "N", astype_float(Col(st.x, "N"))))

chisq_check_rsid(st) ==
    Step(st, <<"check_rsid", 0>>,
         CheckCol(st.x, "SNP", check_rsid(Col(st.x, "SNP"))), st.x)

chisq_check_maf(st) ==
    Step(st, <<"check_maf", 0>>, check_maf(Col(st.x, "MAF")), st.x)

\* x['MAF'] = np.fmin(x['MAF'], 1-x['MAF'])
chisq_fold_MAF(st) ==
    Step(st, <<"fold_MAF", 0>>, NoExc,
         SetCol(st.x, "MAF",
                Map(Col(st.x, "MAF"), LAMBDA m : fmin(m, OneMinus(m)))))

chisq_check_pvalue(st) ==
    Step(st, <<"check_pvalue", 0>>, check_pvalue(Col(st.x, "P")), st.x)

chisq_chdtri(st) ==
    Step(st, <<"chdtri_P", 0>>, NoExc,
         SetCol(st.x, "P", Map(Col(st.x, "P"), chdtri1)))

chisq_rename(st) ==
    Step(st, <<"rename_P", 0>>, NoExc, Rename(st.x, "P", "CHISQ"))

chisq_check_chisq(st) ==
    Step(st, <<"check_chisq", 0>>, check_chisq(Col(st.x, "CHISQ")), st.x)

chisq_no_stat(st) ==
    Step(st, <<"no_stat", 0>>,
         ValueError(".chisq file must have a column labeled either P or CHISQ."),
         st.x)

chisq_maf(st) ==
    IF HasCol(st.x, "MAF")
    THEN Then(chisq_check_maf(st), chisq_fold_MAF)
    ELSE st

chisq_stat(st) ==
    IF HasCol(st.x, "P")
    THEN Then(Then(chisq_check_pvalue(st), chisq_chdtri), chisq_rename)
    ELSE IF HasCol(st.x, "CHISQ") THEN chisq_check_chisq(st)
    ELSE chisq_no_stat(st)

chisq(file) ==
    LET colnames == {file[i].name : i \in DOMAIN file}
        usecols == {"SNP", "P", "CHISQ", "N", "MAF", "INFO"} \cap colnames
    IN  Result(Then(Then(Then(Then(Then(Start(read_csv(file, usecols)),
                                        chisq_check_N),
                                   chisq_astype_N),
                              chisq_check_rsid),
                         chisq_maf),
                    chisq_stat))

\* the column names of trait i
NCol(i) == IF i = 1 THEN "N1" ELSE "N2"

PCol(i) == IF i = 1 THEN "P1" ELSE "P2"

CHISQCol(i) == IF i = 1 THEN "CHISQ1" ELSE "CHISQ2"

DIRCol(i) == IF i = 1 THEN "DIR1" ELSE "DIR2"

MAFCol(i) == IF i = 1 THEN "MAF1" ELSE "MAF2"

BETAHATCol(i) == IF i = 1 THEN "BETAHAT1" ELSE "BETAHAT2"

\* np.sqrt(stat / x[N]) * x[DIR], row by row
Betahat(stat, n, dir) ==
    [r \in DOMAIN stat |-> MulDir(Sqrt(Div(stat[r], n[r])), dir[r])]

\* What np.min(x[MAF], 1-x[MAF]) does.  The second argument is taken as the
\* axis of a reduction of the first: Series.min either rejects a Series as an
\* axis (TypeError) or ignores the axis and returns the column's minimum, a
\* scalar that the assignment then writes to every row.
NpMinOutcomes == {"raise", "scalar"}

NpMinExc(npmin) ==
    IF npmin = "raise" THEN TypeError("axis of Series.min") ELSE NoExc

NpMinCol(maf) == [r \in DOMAIN maf |-> SeriesMin(maf)]

betaprod_check_rsid(st) ==
    Step(st, <<"check_rsid", 0>>,
         CheckCol(st.x, "SNP", check_rsid(Col(st.x, "SNP"))), st.x)

betaprod_check_N(st, i) ==
    Step(st, <<"check_N", i>>,
         CheckCol(st.x, NCol(i), check_N(Col(st.x, NCol(i)))), st.x)

betaprod_astype_N(st, i) ==
    Step(st, <<"astype_N", i>>, NoExc,
         SetCol(st.x, NCol(i), astype_float(Col(st.x, NCol(i)))))

betaprod_check_dir(st, i) ==
    Step(st, <<"check_dir", i>>,
         CheckCol(st.x, DIRCol(i), check_dir(Col(st.x, DIRCol(i)))), st.x)

betaprod_check_chisq(st, i) ==
    Step(st, <<"check_chisq", i>>, check_chisq(Col(st.x, CHISQCol(i))), st.x)

\* betahat = np.sqrt(x[CHISQ]/x[N]) * x[DIR]; x[CHISQ] = betahat
betaprod_betahat_CHISQ(st, i) ==
    Step(st, <<"betahat_CHISQ", i>>, NoExc,
         SetCol(st.x, CHISQCol(i),
                Betahat(Col(st.x, CHISQCol(i)), Col(st.x, NCol(i)),
                        Col(st.x, DIRCol(i)))))

betaprod_rename_CHISQ(st, i) ==
    Step(st, <<"rename_CHISQ", i>>, NoExc,
         Rename(st.x, CHISQCol(i), BETAHATCol(i)))

betaprod_check_pvalue(st, i) ==
    Step(st, <<"check_pvalue", i>>, check_pvalue(Col(st.x, PCol(i))), st.x)

\* betahat = np.sqrt(chdtri(1, x[P])/x[N]) * x[DIR]; x[P] = betahat
betaprod_betahat_P(st, i) ==
    Step(st, <<"betahat_P", i>>, NoExc,
         SetCol(st.x, PCol(i),
                Betahat(Map(Col(st.x, PCol(i)), chdtri1), Col(st.x, NCol(i)),
                        Col(st.x, DIRCol(i)))))

betaprod_rename_P(st, i) ==
    Step(st, <<"rename_P", i>>, NoExc, Rename(st.x, PCol(i), BETAHATCol(i)))

betaprod_no_stat(st, i) ==
    Step(st, <<"no_stat", i>>,
         ValueError("No column named P{i} or CHISQ{i} in betaprod."), st.x)

betaprod_del_DIR(st, i) ==
    Step(st, <<"del_DIR", i>>, NoExc, DelCol(st.x, DIRCol(i)))

betaprod_check_maf(st, i) ==
    Step(st, <<"check_maf", i>>, check_maf(Col(st.x, MAFCol(i))), st.x)

\* x[MAF] = np.min(x[MAF], 1-x[MAF])
betaprod_fold_MAF(st, i, npmin) ==
    Step(st, <<"fold_MAF", i>>, NpMinExc(npmin),
         SetCol(st.x, MAFCol(i), NpMinCol(Col(st.x, MAFCol(i)))))

betaprod_stat(st, i) ==
    IF HasCol(st.x, CHISQCol(i))
    THEN Then(Then(betaprod_check_chisq(st, i),
                   LAMBDA s : betaprod_betahat_CHISQ(s, i)),
              LAMBDA s : betaprod_rename_CHISQ(s, i))
    ELSE IF HasCol(st.x, PCol(i))
    THEN Then(Then(betaprod_check_pvalue(st, i),
                   LAMBDA s : betaprod_betahat_P(s, i)),
              LAMBDA s : betaprod_rename_P(s, i))
    ELSE betaprod_no_stat(st, i)

betaprod_maf(st, i, npmin) ==
    IF HasCol(st.x, MAFCol(i))
    THEN Then(betaprod_check_maf(st, i),
              LAMBDA s : betaprod_fold_MAF(s, i, npmin))
    ELSE st

\* one pass of the loop of betaprod, for trait i
Trait(st, i, npmin) ==
    Then(Then(Then(Then(Then(betaprod_check_N(st, i),
                             LAMBDA s : betaprod_astype_N(s, i)),
                        LAMBDA s : betaprod_check_dir(s, i)),
                   LAMBDA s : betaprod_stat(s, i)),
              LAMBDA s : betaprod_del_DIR(s, i)),
         LAMBDA s : betaprod_maf(s, i, npmin))

BetaprodUsecols ==
    {"DIR1", "P1", "CHISQ1", "N1", "MAF1", "INFO1",
     "DIR2", "P2", "CHISQ2", "N2", "MAF2", "INFO2", "SNP"}

betaprod(file, npmin) ==
    LET colnames == {file[i].name : i \in DOMAIN file}
        usecols == BetaprodUsecols \cap colnames
    IN  Result(Then(Then(Then(Start(read_csv(file, usecols)),
                              betaprod_check_rsid),
                         LAMBDA s : Trait(s, 1, npmin)),
                    LAMBDA s : Trait(s, 2, npmin)))

(***************************************************************************)
(* Columns the checks are applied to.                                      *)
(***************************************************************************)
FloatVals ==
    {NaN, NegInf, PosInf, Num(-1, 1), Num(0, 1), Num(1, 4), Num(1, 2),
     Num(3, 4), Num(1, 1), Num(3, 2)}

IntVals == {IntCell(i) : i \in -2 .. 2}

SeqsUpTo(S, n) == UNION {[1 .. m -> S] : m \in 0 .. n}

Nothing == [k |-> "none"]

NoRes == [raised |-> NoExc, table |-> <<>>, log |-> <<>>]

(***************************************************************************)
(* The checks as operations: one call of a check on a column.              *)
(***************************************************************************)
InitCheck ==
    /\ pc = "input"
    /\ op = "none"
    /\ arg \in [dtype : {"float"}, vals : SeqsUpTo(FloatVals, MaxLen)]
               \cup [dtype : {"int"}, vals : SeqsUpTo(IntVals, MaxLen)]
    /\ fh = Nothing
    /\ res = NoRes
    /\ self = Nothing
    /\ externalDf = Nothing
    /\ ret = <<>>

CallCheck(name, dtype, raised) ==
    /\ pc = "input"
    /\ arg.dtype = dtype
    /\ pc' = "done"
    /\ op' = name
    /\ res' = [NoRes EXCEPT !.raised = raised]
    /\ UNCHANGED <<arg, fh, self, externalDf, ret>>

CheckPvalue == CallCheck("check_pvalue", "float", check_pvalue(arg.vals))

CheckChisq == CallCheck("check_chisq", "float", check_chisq(arg.vals))

CheckMaf == CallCheck("check_maf", "float", check_maf(arg.vals))

CheckN == CallCheck("check_N", "int", check_N(arg.vals))

CheckDir == CallCheck("check_dir", "int", check_dir(arg.vals))

NextCheck == CheckPvalue \/ CheckChisq \/ CheckMaf \/ CheckN \/ CheckDir

SpecCheck == InitCheck /\ [][NextCheck]_vars

(***************************************************************************)
(* .l2.ldscore reader.                                                     *)
(***************************************************************************)
\* DataFrame.drop(labels, axis=1): ValueError when a label is not a column
DropExc(x, labels) ==
    IF \A l \in labels : HasCol(x, l) THEN NoExc
    ELSE ValueError("labels not contained in axis")

DropCols(x, labels) == SelectSeq(x, LAMBDA c : c.name \notin labels)

\* pd.concat(frames): the rows of the frames, one frame after the other
RECURSIVE Concat(_)
Concat(frames) ==
    IF Len(frames) = 1 THEN frames[1]
    ELSE LET rest == Concat(Tail(frames))
         IN  [c \in DOMAIN frames[1] |->
                [name |-> frames[1][c].name,
                 vals |-> frames[1][c].vals \o Col(rest, frames[1][c].name)]]

\* x[ii] for a boolean column ii: the rows where ii holds, in order
RECURSIVE Keep(_, _)
Keep(vals, ii) ==
    IF vals = <<>> THEN <<>>
    ELSE (IF Head(ii) THEN <<Head(vals)>> ELSE <<>>) \o Keep(Tail(vals), Tail(ii))

FilterRows(x, ii) ==
    [c \in DOMAIN x |-> [name |-> x[c].name, vals |-> Keep(x[c].vals, ii)]]

\* ldscore(fh, num): parts[i] is the file fh + str(i) + '.l2.ldscore' when num
\* is given (num >= 1), parts[1] the file fh + '.l2.ldscore' when num is None
\* (written 0 here)
ldscore_parsefunc(st, files) ==
    Step(st, <<"parsefunc", 0>>,
         IF \A i \in DOMAIN files :
               DropExc(files[i], {"CHR", "BP", "CM", "MAF"}) = NoExc
         THEN NoExc
         ELSE ValueError("labels not contained in axis"),
         Concat([i \in DOMAIN files |->
                    DropCols(files[i], {"CHR", "BP", "CM", "MAF"})]))

\* ii = x['SNP'] != '.'; x = x[ii]
ldscore_drop_dot(st) ==
    Step(st, <<"drop_dot", 0>>, CheckCol(st.x, "SNP", NoExc),
         FilterRows(st.x, Map(Col(st.x, "SNP"), LAMBDA v : v # Str("."))))

ldscore_check_rsid(st) ==
    Step(st, <<"check_rsid", 0>>, check_rsid(Col(st.x, "SNP")), st.x)

\* x.ix[:,1:len(x.columns)] = x.ix[:,1:len(x.columns)].astype(float)
ldscore_astype(st) ==
    Step(st, <<"astype", 0>>, NoExc,
         [c \in DOMAIN st.x |->
            IF c = 1 THEN st.x[c]
            ELSE [st.x[c] EXCEPT !.vals = astype_float(@)]])

ldscore(parts, num) ==
    LET files == IF num = 0 THEN <<parts[1]>> ELSE SubSeq(parts, 1, num)
    IN  Result(Then(Then(Then(ldscore_parsefunc(Start(<<>>), files),
                              ldscore_drop_dot),
                         ldscore_check_rsid),
                    ldscore_astype))

(***************************************************************************)
(* ID containers.                                                          *)
(***************************************************************************)
\* the classes made by __ID_List_Factory__: colnames (<<>> for None),
\* keepcol, fname_end (<<>> for None), header (-1 for None), usecols (0-based
\* positions, <<>> for None)
Chars(str) ==
    CASE str = ".bim" -> <<".", "b", "i", "m">>
      [] str = ".snp" -> <<".", "s", "n", "p">>
      [] str = ".fam" -> <<".", "f", "a", "m">>
      [] str = ".ind" -> <<".", "i", "n", "d">>
      [] str = ".annot" -> <<".", "a", "n", "n", "o", "t">>
      [] str = ".txt" -> <<".", "t", "x", "t">>

PlinkBIMFile ==
    [cls |-> "PlinkBIMFile", colnames |-> <<"CHR", "SNP", "CM", "BP">>,
     keepcol |-> 1, fname_end |-> Chars(".bim"), header |-> -1,
     usecols |-> <<0, 1, 2, 3>>]

VcfSNPFile ==
    [cls |-> "VcfSNPFile", colnames |-> <<"CHR", "BP", "SNP", "CM">>,
     keepcol |-> 2, fname_end |-> Chars(".snp"), header |-> -1,
     usecols |-> <<0, 1, 2, 3>>]

PlinkFAMFile ==
    [cls |-> "PlinkFAMFile", colnames |-> <<"IID">>,
     keepcol |-> 0, fname_end |-> Chars(".fam"), header |-> -1,
     usecols |-> <<1>>]

VcfINDFile ==
    [cls |-> "VcfINDFile", colnames |-> <<"IID">>,
     keepcol |-> 0, fname_end |-> Chars(".ind"), header |-> -1,
     usecols |-> <<0>>]

FilterFile ==
    [cls |-> "FilterFile", colnames |-> <<"ID">>,
     keepcol |-> 0, fname_end |-> <<>>, header |-> -1,
     usecols |-> <<0>>]

AnnotFile ==
    [cls |-> "AnnotFile", colnames |-> <<>>,
     keepcol |-> 2, fname_end |-> Chars(".annot"), header |-> 0,
     usecols |-> <<>>]

\* a suffix test that any filename passes
endswith_any(fname, end) == Len(end) >= 0 /\ Len(fname) >= 0

\* fname.endswith(end)
endswith(fname, end) ==
    /\ Len(end) <= Len(fname)
    /\ SubSeq(fname, Len(fname) - Len(end) + 1, Len(fname)) = end

\* pd.read_csv(fname, header=header, usecols=usecols): the columns at the
\* positions usecols (all when None), named by the header line when header=0
\* and by position otherwise
read_ids(file, header, usecols) ==
    LET pos == IF usecols = <<>> THEN [i \in DOMAIN file |-> i - 1] ELSE usecols
    IN  [i \in DOMAIN pos |->
            [name |-> IF header = 0 THEN file[pos[i] + 1].name ELSE "",
             vals |-> file[pos[i] + 1].vals]]

\* self.df.columns = colnames
SetColumns(df, colnames) ==
    [i \in DOMAIN df |-> [df[i] EXCEPT !.name = colnames[i]]]

\* a selection that is a view of df: what is written to it is written to df
iloc_view(df, cols) ==
    [frame |-> [i \in DOMAIN cols |-> df[cols[i] + 1]], view |-> TRUE]

\* df.iloc[:, [c0, ...]] for 0-based positions: a new frame, which shares
\* nothing with df
iloc(df, cols) == [frame |-> [i \in DOMAIN cols |-> df[cols[i] + 1]], view |-> FALSE]

\* IDContainer.__read__: the frame read is st.x, and IDList is kept beside it
read_endswith(st, c, fname) ==
    Step(st, <<"endswith", 0>>,
         IF c.fname_end # <<>> /\ ~endswith(fname, c.fname_end)
         THEN ValueError("{f} filename must end in {f}")
         ELSE NoExc,
         st.x)

read_read_csv(st, c, file) ==
    Step(st, <<"read_csv", 0>>, NoExc, read_ids(file, c.header, c.usecols))

read_columns(st, c) ==
    Step(st, <<"columns", 0>>, NoExc,
         IF c.colnames # <<>> THEN SetColumns(st.x, c.colnames) ELSE st.x)

Read(c, fname, file) ==
    Then(Then(read_endswith(Start(<<>>), c, fname),
              LAMBDA s : read_read_csv(s, c, file)),
         LAMBDA s : read_columns(s, c))

\* if 'SNP' in self.__colnames__: check_rsid(self.df['SNP'])
init_check_rsid(st, c) ==
    IF st.raised # NoExc THEN st
    ELSE IF c.colnames = <<>>
    THEN Step(st, <<"colnames", 0>>,
              TypeError("argument of type 'NoneType' is not iterable"), st.x)
    ELSE IF \E i \in DOMAIN c.colnames : c.colnames[i] = "SNP"
    THEN Step(st, <<"check_rsid", 0>>, check_rsid(Col(st.x, "SNP")), st.x)
    ELSE st

\* the object __init__ leaves: df, IDList = df.iloc[:,[keepcol]] and
\* n = len(IDList); no object when it raised
init_object(st, c) ==
    [raised |-> st.raised,
     log |-> st.log,
     self |-> IF st.raised # NoExc THEN Nothing
              ELSE [k |-> "IDContainer", cls |-> c.cls, df |-> st.x,
                    IDList |-> iloc(st.x, <<c.keepcol>>).frame,
                    n |-> NumRows(iloc(st.x, <<c.keepcol>>).frame)]]

\* IDContainer.__init__
IDContainer(c, fname, file) ==
    Then(Then(Read(c, fname, file), LAMBDA s : init_check_rsid(s, c)),
         LAMBDA s : init_object(s, c))

BoolCell(b) == [k |-> "bool", n |-> IF b THEN 1 ELSE 0, d |-> 1, s |-> ""]

\* pd.merge(left, right, how='left', left_on=l, right_on=r, sort=False) of
\* a one-column left frame: the rows of left in order, each once for every
\* row of right with its key, or once with NaN when right has none.  The
\* value is the 'keep' column of the merged frame.
RECURSIVE MergeKeep(_, _, _)
MergeKeep(lkeys, rkeys, rkeep) ==
    IF lkeys = <<>> THEN <<>>
    ELSE LET hits == SelectSeq([j \in DOMAIN rkeys |-> j],
                               LAMBDA j : rkeys[j] = Head(lkeys))
         IN  (IF hits = <<>> THEN <<NaN>>
              ELSE [h \in DOMAIN hits |-> rkeep[hits[h]]])
             \o MergeKeep(Tail(lkeys), rkeys, rkeep)

\* np.nonzero(ii)[0]: the 0-based positions where ii holds, ascending
nonzero(ii) ==
    LET idx == SelectSeq([j \in DOMAIN ii |-> j], LAMBDA j : ii[j])
    IN  [h \in DOMAIN idx |-> idx[h] - 1]

\* IDContainer.loj: the indices returned, and the container and the caller's
\* frame as the call leaves them
loj(obj, ext) ==
    LET r == ext[1].name
        l == obj.IDList[1].name
        sel == iloc(ext, <<0>>)
        merge_df == SetCol(sel.frame, "keep",
                           [j \in 1 .. NumRows(ext) |-> BoolCell(TRUE)])
        z == MergeKeep(Col(obj.IDList, l), Col(merge_df, r), Col(merge_df, "keep"))
        ii == [j \in DOMAIN z |-> z[j] = BoolCell(TRUE)]
    IN  [ret |-> nonzero(ii),
         self |-> obj,
         externalDf |-> IF sel.view
                        THEN SetCol(ext, "keep",
                                    [j \in 1 .. NumRows(ext) |-> BoolCell(TRUE)])
                        ELSE ext]

(***************************************************************************)
(* Summary-statistics files.  A file is written by starting from a plain   *)
(* file (distinct identifiers, N = 2, DIR = 1, MAF = 1/4, P = 1/2,         *)
(* CHISQ = 4) and making up to MaxEdits changes to it: a cell set to       *)
(* another valid value or to an invalid one, or a column left out.         *)
(***************************************************************************)
IdOf(r) == <<"a", "b", "c", "d", "e">>[r]

NNames == {"N", "N1", "N2"}

DIRNames == {"DIR1", "DIR2"}

MAFNames == {"MAF", "MAF1", "MAF2"}

PNames == {"P", "P1", "P2"}

CHISQNames == {"CHISQ", "CHISQ1", "CHISQ2"}

BaseVal(name, r) ==
    CASE name = "SNP" -> Str(IdOf(r))
      [] name \in NNames -> IntCell(2)
      [] name \in DIRNames -> IntCell(1)
      [] name \in MAFNames -> Num(1, 4)
      [] name \in PNames -> Num(1, 2)
      [] name \in CHISQNames -> Num(4, 1)
      [] OTHER -> Str("1")

CellDomain(name) ==
    CASE name = "SNP" -> {Str(".")} \cup {Str(IdOf(r)) : r \in 1 .. MaxRows}
      [] name \in NNames -> {IntCell(2), IntCell(0), IntCell(-1)}
      [] name \in DIRNames -> {IntCell(1), IntCell(-1), IntCell(0)}
      [] name \in MAFNames -> {Num(1, 4), Num(3, 4), Num(1, 1)}
      [] name \in PNames -> {Num(1, 2), Num(1, 1), Num(0, 1)}
      [] name \in CHISQNames -> {Num(4, 1), Num(0, 1), Num(-1, 1), PosInf}
      [] OTHER -> {Str("1")}

ChisqHeaders ==
    {<<"CHR", "SNP", "N", "MAF", "P", "CHISQ">>,
     <<"CHR", "SNP", "N", "MAF", "CHISQ">>}

BetaprodHeaders ==
    {<<"CHR", "SNP", "N1", "DIR1", "CHISQ1", "P1", "MAF1",
       "N2", "DIR2", "CHISQ2", "P2", "MAF2">>,
     <<"CHR", "SNP", "N1", "DIR1", "P1", "N2", "DIR2", "CHISQ2">>}

Base(header, n) ==
    [c \in DOMAIN header |->
        [name |-> header[c], vals |-> [r \in 1 .. n |-> BaseVal(header[c], r)]]]

SumstatFiles ==
    {[fmt |-> "chisq", x |-> Base(h, n), edits |-> 0] :
        h \in ChisqHeaders, n \in 0 .. MaxRows}
    \cup {[fmt |-> "betaprod", x |-> Base(h, n), edits |-> 0] :
            h \in BetaprodHeaders, n \in 0 .. MaxRows}

(***************************************************************************)
(* .l2.ldscore files and ID files.                                         *)
(***************************************************************************)
IdVals == {Str("."), Str("a"), Str("b")}

Filler(name, ids) == [name |-> name, vals |-> [r \in DOMAIN ids |-> Str("1")]]

LdPart(ids) ==
    <<Filler("CHR", ids), [name |-> "SNP", vals |-> ids], Filler("BP", ids),
      Filler("CM", ids), Filler("MAF", ids),
      [name |-> "L2", vals |-> [r \in DOMAIN ids |-> IntCell(1)]]>>

NumChoices == {0, 1, 2}

LdscoreFiles ==
    UNION {{[fmt |-> "ldscore", num |-> num, parts |-> parts] :
              parts \in [1 .. (IF num = 0 THEN 1 ELSE num) ->
                            {LdPart(ids) : ids \in SeqsUpTo(IdVals, MaxRows)}]} :
           num \in NumChoices}

Classes ==
    {PlinkBIMFile, VcfSNPFile, PlinkFAMFile, VcfINDFile, FilterFile, AnnotFile}

\* the columns of a file of each kind, the identifiers at idpos (0-based)
FileColumns(c) ==
    CASE c.cls = "PlinkBIMFile" -> <<"CHR", "SNP", "CM", "BP", "A1", "A2">>
      [] c.cls = "VcfSNPFile" -> <<"CHR", "BP", "SNP", "CM">>
      [] c.cls = "PlinkFAMFile" -> <<"FID", "IID", "PID", "MID", "SEX", "PHEN">>
      [] c.cls = "VcfINDFile" -> <<"IID">>
      [] c.cls = "FilterFile" -> <<"ID">>
      [] c.cls = "AnnotFile" -> <<"CHR", "BP", "SNP", "CM", "ANNOT">>

IdPos(c) == IF c.usecols = <<>> THEN c.keepcol ELSE c.usecols[c.keepcol + 1]

IdFile(c, ids) ==
    [i \in DOMAIN FileColumns(c) |->
        IF i = IdPos(c) + 1 THEN [name |-> FileColumns(c)[i], vals |-> ids]
        ELSE Filler(FileColumns(c)[i], ids)]

Fnames ==
    {<<"d">> \o Chars(e) :
        e \in {".bim", ".snp", ".fam", ".ind", ".annot", ".txt"}}

IDFiles ==
    {[fmt |-> "ids", cls |-> c, fname |-> f, x |-> IdFile(c, ids)] :
        c \in Classes, f \in Fnames, ids \in SeqsUpTo(IdVals, MaxRows)}

ExtDfs ==
    {<<[name |-> nm, vals |-> ids], Filler("X", ids)>> :
        nm \in {"SNP", "keep"},
        ids \in SeqsUpTo({Str("a"), Str("b")}, MaxExt)}

(***************************************************************************)
(* The readers as operations.                                              *)
(***************************************************************************)
Init ==
    /\ pc = "input"
    /\ op = "none"
    /\ \/ /\ fh \in SumstatFiles \cup LdscoreFiles \cup IDFiles
          /\ arg = Nothing
       \/ /\ fh = Nothing
          /\ arg \in [dtype : {"str"}, vals : SeqsUpTo(IdVals, MaxLen)]
    /\ res = NoRes
    /\ self = Nothing
    /\ externalDf = Nothing
    /\ ret = <<>>

\* the user changes one cell of the file, one still as written at first,
\* before the file is parsed
EditCell ==
    /\ pc = "input"
    /\ fh # Nothing
    /\ fh.fmt \in {"chisq", "betaprod"}
    /\ fh.edits < MaxEdits
    /\ \E c \in DOMAIN fh.x, r \in 1 .. NumRows(fh.x) :
         /\ fh.x[c].vals[r] = BaseVal(fh.x[c].name, r)
         /\ \E v \in CellDomain(fh.x[c].name) \ {fh.x[c].vals[r]} :
              fh' = [fh EXCEPT !.x[c].vals[r] = v, !.edits = @ + 1]
    /\ UNCHANGED <<pc, op, arg, res, self, externalDf, ret>>

\* the user leaves out one column, one still as written at first
DropColumn ==
    /\ pc = "input"
    /\ fh # Nothing
    /\ fh.fmt \in {"chisq", "betaprod"}
    /\ fh.edits < MaxEdits
    /\ \E c \in DOMAIN fh.x :
         /\ fh.x[c].name # "CHR"
         /\ \A r \in 1 .. NumRows(fh.x) :
               fh.x[c].vals[r] = BaseVal(fh.x[c].name, r)
         /\ fh' = [fh EXCEPT !.x = DelCol(@, fh.x[c].name), !.edits = @ + 1]
    /\ UNCHANGED <<pc, op, arg, res, self, externalDf, ret>>

CheckRsid ==
    /\ pc = "input"
    /\ arg # Nothing
    /\ arg.dtype = "str"
    /\ pc' = "done"
    /\ op' = "check_rsid"
    /\ res' = [NoRes EXCEPT !.raised = check_rsid(arg.vals)]
    /\ UNCHANGED <<arg, fh, self, externalDf, ret>>

Chisq ==
    /\ pc = "input"
    /\ fh # Nothing
    /\ fh.fmt = "chisq"
    /\ pc' = "done"
    /\ op' = "chisq"
    /\ res' = chisq(fh.x)
    /\ UNCHANGED <<arg, fh, self, externalDf, ret>>

Betaprod ==
    /\ pc = "input"
    /\ fh # Nothing
    /\ fh.fmt = "betaprod"
    /\ \E npmin \in NpMinOutcomes :
         res' = betaprod(fh.x, npmin)
    /\ pc' = "done"
    /\ op' = "betaprod"
    /\ UNCHANGED <<arg, fh, self, externalDf, ret>>

Ldscore ==
    /\ pc = "input"
    /\ fh # Nothing
    /\ fh.fmt = "ldscore"
    /\ pc' = "done"
    /\ op' = "ldscore"
    /\ res' = ldscore(fh.parts, fh.num)
    /\ UNCHANGED <<arg, fh, self, externalDf, ret>>

\* IDContainer(fname): the object is bound only when __init__ returns
Construct ==
    /\ pc = "input"
    /\ fh # Nothing
    /\ fh.fmt = "ids"
    /\ LET made == IDContainer(fh.cls, fh.fname, fh.x)
       IN  /\ pc' = IF made.raised = NoExc THEN "ready" ELSE "failed"
           /\ res' = [raised |-> made.raised, table |-> <<>>, log |-> made.log]
           /\ self' = made.self
    /\ op' = "construct"
    /\ UNCHANGED <<arg, fh, externalDf, ret>>

\* self.loj(externalDf), for a frame the caller holds: arg is the frame as
\* passed, externalDf the caller's frame when the call has returned
Loj ==
    /\ pc = "ready"
    /\ \E ext \in ExtDfs :
         LET out == loj(self, ext)
         IN  /\ arg' = ext
             /\ externalDf' = out.externalDf
             /\ self' = out.self
             /\ ret' = out.ret
    /\ op' = "loj"
    /\ UNCHANGED <<pc, fh, res>>

Next ==
    \/ EditCell
    \/ DropColumn
    \/ CheckRsid
    \/ Chisq
    \/ Betaprod
    \/ Ldscore
    \/ Construct

Spec == Init /\ [][Next]_vars

InitID ==
    /\ pc = "input"
    /\ op = "none"
    /\ arg = Nothing
    /\ fh \in IDFiles
    /\ res = NoRes
    /\ self = Nothing
    /\ externalDf = Nothing
    /\ ret = <<>>

NextID == Construct \/ Loj

SpecID == InitID /\ [][NextID]_vars

(***************************************************************************)
(* Properties.                                                             *)
(***************************************************************************)
\* the accepted sets, entry by entry
PvalueOK(v) == v.k = "num" /\ v.n > 0 /\ v.n <= v.d

ChisqOK(v) == v.k = "num" /\ v.n >= 0

MafOK(v) == v.k = "num" /\ v.n > 0 /\ v.n < v.d

NOK(v) == v.k = "int" /\ v.n >= 0

DirOK(v) == v.k = "int" /\ (v.n = 1 \/ v.n = -1)

SnpOK(col) ==
    /\ \A r \in DOMAIN col : col[r] # Str(".")
    /\ \A q, r \in DOMAIN col : q # r => col[q] # col[r]

ColumnOK(name, col) ==
    CASE name = "SNP" -> SnpOK(col)
      [] name \in NNames -> \A r \in DOMAIN col : NOK(col[r])
      [] name \in DIRNames -> \A r \in DOMAIN col : DirOK(col[r])
      [] name \in MAFNames -> \A r \in DOMAIN col : MafOK(col[r])
      [] name \in PNames -> \A r \in DOMAIN col : PvalueOK(col[r])
      [] name \in CHISQNames -> \A r \in DOMAIN col : ChisqOK(col[r])
      [] OTHER -> TRUE

Parsed == pc = "done" /\ op \in {"chisq", "betaprod"}

Returned == res.raised = NoExc

\* C3: each range check raises ValueError exactly when some entry of its
\* column is outside the accepted set: (0,1] for check_pvalue, [0,inf) for
\* check_chisq, (0,1) for check_maf, each with no missing entry, >= 0 for
\* check_N and {+1,-1} for check_dir.
C3_RangeChecks ==
    (pc = "done" /\ op \in {"check_pvalue", "check_chisq", "check_maf",
                            "check_N", "check_dir"}) =>
        /\ res.raised = NoExc \/ res.raised.exc = "ValueError"
        /\ res.raised = NoExc <=>
             \A r \in DOMAIN arg.vals :
                CASE op = "check_pvalue" -> PvalueOK(arg.vals[r])
                  [] op = "check_chisq" -> ChisqOK(arg.vals[r])
                  [] op = "check_maf" -> MafOK(arg.vals[r])
                  [] op = "check_N" -> NOK(arg.vals[r])
                  [] op = "check_dir" -> DirOK(arg.vals[r])

C3_Witness ==
    /\ pc = "done"
    /\ op = "check_chisq"
    /\ arg.vals = <<Num(0, 1), PosInf>>
    /\ res.raised.exc = "ValueError"

\* C1: a parser either raises and returns no table or returns a table, and
\* it returns a table only for a file all of whose N, SNP, MAF, P, CHISQ and
\* (betaprod) DIR values pass their checks.
C1_NoPartialAcceptance ==
    Parsed =>
        /\ ~Returned => res.table = <<>>
        /\ Returned =>
             \A c \in DOMAIN fh.x : ColumnOK(fh.x[c].name, fh.x[c].vals)

\* the checks of a parser on a file, in the order claimed: the check, the
\* trait and the column checked
StatCheck(x, i, first, firstCheck, second, secondCheck) ==
    IF HasCol(x, first) THEN <<firstCheck, i, first>>
    ELSE IF HasCol(x, second) THEN <<secondCheck, i, second>>
    ELSE <<"no_stat", i, "">>

MafCheck(x, i, name) ==
    IF HasCol(x, name) THEN <<<<"check_maf", i, name>>>> ELSE <<>>

TraitOrder(x, i) ==
    <<<<"check_N", i, NCol(i)>>, <<"check_dir", i, DIRCol(i)>>,
      StatCheck(x, i, CHISQCol(i), "check_chisq", PCol(i), "check_pvalue")>>
    \o MafCheck(x, i, MAFCol(i))

CheckOrder(fmt, x) ==
    IF fmt = "chisq"
    THEN <<<<"check_N", 0, "N">>, <<"check_rsid", 0, "SNP">>>>
         \o MafCheck(x, 0, "MAF")
         \o <<StatCheck(x, 0, "P", "check_pvalue", "CHISQ", "check_chisq")>>
    ELSE <<<<"check_rsid", 0, "SNP">>>> \o TraitOrder(x, 1) \o TraitOrder(x, 2)

CheckFails(x, chk) ==
    \/ chk[1] = "no_stat"
    \/ ~HasCol(x, chk[3])
    \/ ~ColumnOK(chk[3], Col(x, chk[3]))

CheckLabels ==
    {"check_N", "check_rsid", "check_maf", "check_pvalue", "check_chisq",
     "check_dir", "no_stat"}

\* C2: a parser stops at the first failing check of the fixed order (chisq:
\* N, SNP, MAF, P else CHISQ; betaprod: SNP, then N, DIR, CHISQ-or-P, MAF of
\* trait 1 and then of trait 2): it raises from that check, having run the
\* checks before it and nothing after it.
C2_FirstFailure ==
    Parsed =>
        LET order == CheckOrder(fh.fmt, fh.x)
            failing == {k \in DOMAIN order : CheckFails(fh.x, order[k])}
            first == CHOOSE k \in failing : \A j \in failing : k <= j
            ran == SelectSeq(res.log, LAMBDA e : e[1] \in CheckLabels)
        IN  failing # {} =>
              /\ ~Returned
              /\ res.log[Len(res.log)] = <<order[first][1], order[first][2]>>
              /\ ran = [k \in 1 .. first |-> <<order[k][1], order[k][2]>>]

\* C6: a table returned by chisq has exactly one column named CHISQ and none
\* named P, and a file with neither P nor CHISQ is not parsed.
C6_OneCHISQ ==
    (pc = "done" /\ op = "chisq") =>
        /\ Returned =>
             /\ Cardinality({c \in DOMAIN res.table :
                                res.table[c].name = "CHISQ"}) = 1
             /\ ~HasCol(res.table, "P")
        /\ (~HasCol(fh.x, "P") /\ ~HasCol(fh.x, "CHISQ")) => ~Returned

\* min(m, 1 - m)
Folded(m) == IF 2 * m.n <= m.d THEN m ELSE Num(m.d - m.n, m.d)

\* C7: every MAF column of a returned table is min(m, 1-m) of the input
\* column, row by row, in chisq and in betaprod alike, and a betaprod file
\* whose columns are all valid is parsed.
C7_MAFFold ==
    Parsed =>
        /\ Returned =>
             \A c \in DOMAIN fh.x :
                fh.x[c].name \in MAFNames =>
                    /\ HasCol(res.table, fh.x[c].name)
                    /\ Col(res.table, fh.x[c].name)
                         = [r \in DOMAIN fh.x[c].vals |-> Folded(fh.x[c].vals[r])]
        /\ (\A k \in DOMAIN CheckOrder(fh.fmt, fh.x) :
               ~CheckFails(fh.x, CheckOrder(fh.fmt, fh.x)[k])) => Returned

\* the chi-square statistic of trait i in row r of the file
StatOf(x, i, r) ==
    IF HasCol(x, CHISQCol(i)) THEN Col(x, CHISQCol(i))[r]
    ELSE chdtri1(Col(x, PCol(i))[r])

\* C8: in a table returned by betaprod, for each trait, DIR is gone and
\* BETAHAT is finite, has the sign of DIR when the statistic is positive, is
\* zero when it is zero, and BETAHAT^2 * N is the statistic: also when N = 0.
C8_Betahat ==
    (pc = "done" /\ op = "betaprod" /\ Returned) =>
        \A i \in {1, 2} :
            /\ HasCol(res.table, BETAHATCol(i))
            /\ ~HasCol(res.table, DIRCol(i))
            /\ \A r \in 1 .. NumRows(fh.x) :
                 LET b == Col(res.table, BETAHATCol(i))[r]
                     stat == StatOf(fh.x, i, r)
                     n == Col(fh.x, NCol(i))[r].n
                     dir == Col(fh.x, DIRCol(i))[r].n
                 IN  /\ b.k \in {"num", "root"}
                     /\ stat.n > 0 => (b.n > 0 <=> dir > 0) /\ b.n # 0
                     /\ stat.n = 0 => b.n = 0
                     /\ Abs(b.n) * n * stat.d = stat.n * b.d

\* the identifiers of a file read by a reader that checks them
HasDot(col) == \E r \in DOMAIN col : col[r] = Str(".")

HasDup(col) == \E q, r \in DOMAIN col : q # r /\ col[q] = col[r]

LdIds(f) ==
    LET files == IF f.num = 0 THEN <<f.parts[1]>> ELSE f.parts
    IN  Concat(files)[2].vals

ChecksSNP(f) ==
    \/ f.fmt \in {"chisq", "betaprod"} /\ HasCol(f.x, "SNP")
    \/ f.fmt = "ids" /\ f.cls.cls \in {"PlinkBIMFile", "VcfSNPFile"}

SnpIds(f) ==
    IF f.fmt = "ids" THEN f.x[IdPos(f.cls) + 1].vals ELSE Col(f.x, "SNP")

C5_Common ==
    /\ (pc = "done" /\ op = "check_rsid" /\ (HasDot(arg.vals) \/ HasDup(arg.vals)))
          => res.raised.exc = "ValueError"
    /\ (pc \in {"done", "ready", "failed"} /\ op \in {"chisq", "betaprod", "construct"}
          /\ ChecksSNP(fh) /\ HasDot(SnpIds(fh)))
          => ~Returned

NoDots(col) == SelectSeq(col, LAMBDA v : v # Str("."))

RECURSIVE Positions(_, _, _)
Positions(ids, ext, from) ==
    IF ids = <<>> THEN <<>>
    ELSE (IF \E j \in DOMAIN ext : ext[j] = Head(ids) THEN <<from>> ELSE <<>>)
         \o Positions(Tail(ids), ext, from + 1)

\* C4: loj returns, ascending and each once, exactly the positions of
\* IDList whose identifier occurs in the first column of externalDf.
C4_LojIndices ==
    (pc = "ready" /\ op = "loj") =>
        ret = Positions(self.IDList[1].vals, arg[1].vals, 0)

\* fname ends in end: some prefix followed by end is fname
EndsIn(fname, end) ==
    \E k \in 0 .. Len(fname) : fname = SubSeq(fname, 1, k) \o end

\* C9: a container with a required suffix raises ValueError on any other
\* filename, before the file is read, and leaves no object; FilterFile takes
\* any filename; a constructed container has n = the rows of IDList, IDList
\* the kept column of df in file order, and, with a SNP column, no '.' and no
\* repeated identifier.
C9_Construct ==
    pc \in {"ready", "failed"} =>
        /\ (fh.cls.fname_end # <<>> /\ ~EndsIn(fh.fname, fh.cls.fname_end)) =>
              /\ pc = "failed"
              /\ res.raised.exc = "ValueError"
              /\ \A e \in DOMAIN res.log : res.log[e][1] # "read_csv"
        /\ pc = "failed" => self = Nothing
        /\ fh.cls.cls = "FilterFile" => pc = "ready"
        /\ pc = "ready" =>
              /\ self.n = Len(self.IDList[1].vals)
              /\ Len(self.IDList) = 1
              /\ self.IDList[1] = self.df[fh.cls.keepcol + 1]
              /\ self.IDList[1].vals = fh.x[IdPos(fh.cls) + 1].vals
              /\ HasCol(self.df, "SNP") => SnpOK(Col(self.df, "SNP"))

C9_Witness ==
    /\ pc = "ready"
    /\ op = "construct"
    /\ self.cls = "PlinkBIMFile"
    /\ self.n = 2

\* C10: a loj call leaves the container's IDList, df and n and the caller's
\* frame as they were, and a call with the argument of the call before
\* returns the same indices.
C10_LojPure ==
    [][pc = "ready" =>
          /\ self' = self
          /\ externalDf' = arg'
          /\ (op = "loj" /\ arg' = arg) => ret' = ret]_vars

C10_Witness ==
    /\ pc = "ready"
    /\ op = "loj"
    /\ ret = <<0, 1>>
    /\ externalDf = arg

====
